---- MODULE Spec2Model ----
(***************************************************************************)
(* Model of the PEP 517 build plugin (python_517_build_plugin.py):         *)
(* Python517BuildSystem (manifest resolution, build registry, installable  *)
(* derivation), Python517PipelineAddin, Python517BuildTarget and           *)
(* Python517BuildTargetProvider.                                           *)
(*                                                                         *)
(* A Python string is modelled as a sequence of tokens (words and the      *)
(* separators "-", "_", ".", "/"), so that concatenation is \o and the     *)
(* suffix / filename parsers work on the structure of the name.            *)
(***************************************************************************)
EXTENDS Integers, Sequences, FiniteSets, TLC

VARIABLES
    manifest,       \* what is on disk at <project>/pyproject.toml
    cancelled,      \* the GCancellable handed to do_init_async is cancelled
    pc,             \* position of the asynchronous initialisation
    task,           \* the Gio.Task of do_init_async: pending, error or value
    init_raised,    \* exception that escaped _on_load_pyproject_toml
    pypa,           \* the PypaBuildBackend class (backends.py): its capabilities
    build_backend,  \* Python517BuildSystem.props.build_backend
    builds,         \* Python517BuildSystem.props.builds, in dict iteration order
    ret,            \* the latest call (other than do_get_argv) and its outcome
    stages,         \* stages attached to the pipeline by do_load
    target,         \* the Python517BuildTarget objects constructed so far
    argv_ret        \* what the calls of do_get_argv on target returned, oldest first

vars == <<manifest, cancelled, pc, task, init_raised, pypa, build_backend,
          builds, ret, stages, target, argv_ret>>

None == "None"

(***************************************************************************)
(* Bounds of the model.                                                    *)
(***************************************************************************)
MaxBuilds == 2      \* entries in the build registry
MaxArgv == 3        \* length of a target's argument vector
MaxCalls == 2       \* do_get_argv calls on one target

(***************************************************************************)
(* BuildType (backends.py), the closed enumeration of artifact kinds.      *)
(***************************************************************************)
BuildType == {"TREE", "EGG", "WHEEL", "SDIST", "FILE"}

\* The PypaBuildBackend class: the kinds it declares, its isolation flag.
BuildTypeSets ==
    {{}, {"WHEEL", "SDIST"}, {"TREE", "EGG", "FILE"}, {"SDIST", "FILE"},
     BuildType}

BackendClasses ==
    [build_types : BuildTypeSets, has_isolation : BOOLEAN]

\* Python517BuildSystem.backends: backend key -> backend class.
backends == {"setuptools.build_meta"}

(***************************************************************************)
(* The manifest on disk.  A document that parses is described by the shape *)
(* the resolver looks at: bs is the type of py_project["build-system"]     *)
(* ("absent" when the key is missing), bb the type of its "build-backend"  *)
(* entry, key the string held there.                                       *)
(***************************************************************************)
BackendKeys == {"setuptools.build_meta", "flit_core.buildapi", ""}

TomlDocs ==
    {[kind |-> "toml", bs |-> "absent", bb |-> "absent", key |-> ""],
     [kind |-> "toml", bs |-> "str", bb |-> "absent", key |-> ""],
     [kind |-> "toml", bs |-> "dict", bb |-> "absent", key |-> ""],
     [kind |-> "toml", bs |-> "dict", bb |-> "int", key |-> ""]}
    \cup {[kind |-> "toml", bs |-> "dict", bb |-> "str", key |-> k] :
             k \in BackendKeys}

Manifests ==
    {[kind |-> k, bs |-> "absent", bb |-> "absent", key |-> ""] :
        k \in {"missing", "notutf8", "badtoml"}}
    \cup TomlDocs

\* The Gio.Task of do_init_async.
Pending == [state |-> "pending", code |-> "none"]
Value(v) == [state |-> "value", code |-> v]
Error(c) == [state |-> "error", code |-> c]

NoCall == [op |-> "none"]

\* do_load without the isinstance test of lines 340-341: whatever the context
\* holds is treated as an initialised Python517BuildSystem.
IsPython517BuildSystem_NoCheck == TRUE

\* Ide.BuildSystem.from_context(context) is this build system: the host
\* keeps a build system only when its initialisation succeeded.
IsPython517BuildSystem == task.state = "value"

Init ==
    /\ manifest \in Manifests
    /\ cancelled = FALSE
    /\ pc = "new"
    /\ task = Pending
    /\ init_raised = "none"
    /\ pypa \in BackendClasses
    /\ build_backend = None
    /\ builds = <<>>
    /\ ret = NoCall
    /\ stages = <<>>
    /\ target = <<>>
    /\ argv_ret = <<>>

(***************************************************************************)
(* Manifest resolution.                                                    *)
(***************************************************************************)
\* do_init_async: create the task and start the asynchronous read.
DoInitAsync ==
    /\ pc = "new"
    /\ pc' = "loading"
    /\ UNCHANGED <<manifest, cancelled, task, init_raised, pypa, build_backend,
                   builds, ret, stages, target, argv_ret>>

\* The caller cancels the cancellable while the read is in flight.
Cancel ==
    /\ pc = "loading"
    /\ ~cancelled
    /\ cancelled' = TRUE
    /\ UNCHANGED <<manifest, pc, task, init_raised, pypa, build_backend,
                   builds, ret, stages, target, argv_ret>>

\* project_file.load_contents_finish(result): the GLib.Error code it raises,
\* "ok" when it returns the contents.
load_contents_finish ==
    IF cancelled THEN "CANCELLED"
    ELSE IF manifest.kind = "missing" THEN "NOT_FOUND"
    ELSE "ok"

\* NotPep517 without the isinstance(..., str) test on the key.
NotPep517_NoStrTest(doc) ==
    \/ doc.bs = "absent"
    \/ doc.bs # "dict"
    \/ doc.bb = "absent"

\* The test of lines 132-139: the document is not a PEP 517 manifest.
NotPep517(doc) ==
    \/ doc.bs = "absent"
    \/ doc.bs # "dict"
    \/ doc.bb = "absent"
    \/ doc.bb # "str"

\* BackendsGet falling back to the one registered class.
BackendsGet_Default(key) == "PypaBuildBackend"

\* self.props.backends.get(key): the registered class, None when unknown.
BackendsGet(key) ==
    IF key \in backends THEN "PypaBuildBackend" ELSE None

\* LoadError reporting every failed read as "not a PEP 517 project".
LoadError_NotSupported(code) == Error("NOT_SUPPORTED")

\* The except branch of lines 122-124: the read's error completes the task.
LoadError(code) == Error(code)

\* What _on_load_pyproject_toml leaves behind: the task, the exception that
\* escaped it and build_backend.
OnLoadOutcome ==
    LET loaded == load_contents_finish IN
    IF loaded # "ok"
      THEN [task |-> LoadError(loaded), raised |-> "none",
            backend |-> build_backend]
    ELSE IF manifest.kind = "notutf8"
      \* contents.decode('utf-8') raises outside any handler
      THEN [task |-> task, raised |-> "UnicodeDecodeError",
            backend |-> build_backend]
    ELSE IF manifest.kind = "badtoml"
      \* task.return_error(err) with a tomli.TOMLDecodeError, which is no
      \* GLib.Error: the call raises TypeError and the task is not completed
      THEN [task |-> task, raised |-> "TypeError", backend |-> build_backend]
    ELSE IF NotPep517(manifest)
      THEN [task |-> Error("NOT_SUPPORTED"), raised |-> "none",
            backend |-> build_backend]
    ELSE LET _backend == BackendsGet(manifest.key) IN
         [task |-> Value("True"), raised |-> "none",
          backend |-> IF _backend # None THEN _backend ELSE build_backend]

OnLoadPyprojectToml ==
    /\ pc = "loading"
    /\ pc' = "done"
    /\ task' = OnLoadOutcome.task
    /\ init_raised' = OnLoadOutcome.raised
    /\ build_backend' = OnLoadOutcome.backend
    /\ UNCHANGED <<manifest, cancelled, pypa, builds, ret, stages, target,
                   argv_ret>>

(***************************************************************************)
(* Strings and paths.  A version number ("1.0") is one token.              *)
(***************************************************************************)
Separators == {"-", "_", "."}

\* str.lower() on a word token.
Lower(w) ==
    CASE w = "My" -> "my"
      [] w = "Pkg" -> "pkg"
      [] OTHER -> w

\* The base names the build directory can hold.
GoodWheel == <<"mypkg", "-", "1.0", "-", "py3", "-", "none", "-", "any", ".", "whl">>
CamelWheel == <<"My", "_", "Pkg", "-", "2.0", "-", "py3", "-", "none", "-", "any", ".", "whl">>
BadWheel == <<"bad", ".", "whl">>
GoodSdist == <<"mypkg", "-", "1.0", ".", "tar", ".", "gz">>
TarSdist == <<"mypkg", "-", "1.0", ".", "tar">>
EggFile == <<"mypkg", ".", "egg">>
PlainName == <<"build">>

FileNames ==
    {GoodWheel, CamelWheel, BadWheel, GoodSdist, TarSdist, EggFile, PlainName}

\* A pathlib.Path handed to add_build: its base name and whether it is a
\* directory on disk.
Paths ==
    [name : FileNames, is_dir : {FALSE}]
    \cup [name : {PlainName, BadWheel}, is_dir : {TRUE}]

\* context.ref_workdir().get_path()
WorkDir == <<"/", "proj">>

\* Index of the last "." of s that is neither its first nor its last token,
\* 0 when there is none (str.rfind as pathlib uses it).
RECURSIVE LastDot(_, _)
LastDot(s, i) ==
    IF i <= 1 THEN 0
    ELSE IF s[i] = "." /\ i < Len(s) THEN i
    ELSE LastDot(s, i - 1)

\* pathlib.PurePath.suffix
Suffix(s) ==
    LET i == LastDot(s, Len(s)) IN
    IF i = 0 THEN <<>> ELSE SubSeq(s, i, Len(s))

\* str.endswith
EndsWith(s, t) ==
    /\ Len(s) >= Len(t)
    /\ SubSeq(s, Len(s) - Len(t) + 1, Len(s)) = t

\* s.count(c)
Count(s, c) == Cardinality({i \in 1..Len(s) : s[i] = c})

\* Index of the first c in s, Len(s) + 1 when there is none.
RECURSIVE Find(_, _, _)
Find(s, c, i) ==
    IF i > Len(s) THEN i
    ELSE IF s[i] = c THEN i
    ELSE Find(s, c, i + 1)

\* Index of the last c in s, 0 when there is none.
RECURSIVE RFind(_, _, _)
RFind(s, c, i) ==
    IF i < 1 THEN 0
    ELSE IF s[i] = c THEN i
    ELSE RFind(s, c, i - 1)

\* packaging.utils.canonicalize_name: runs of "-", "_", "." become one "-",
\* the rest is lower-cased.
RECURSIVE canonicalize_name(_)
canonicalize_name(s) ==
    IF s = <<>> THEN <<>>
    ELSE IF s[1] \in Separators
      THEN IF Len(s) > 1 /\ s[2] \in Separators
             THEN canonicalize_name(Tail(s))
             ELSE <<"-">> \o canonicalize_name(Tail(s))
    ELSE <<Lower(s[1])>> \o canonicalize_name(Tail(s))

\* packaging.version.Version accepts the text.
IsVersion(s) == Len(s) = 1 /\ s[1] \in {"1.0", "2.0"}

Raise(e) == [raised |-> e, name |-> <<>>]
Parsed(n) == [raised |-> "none", name |-> n]

\* packaging.utils.parse_wheel_filename: the project name, or the exception.
parse_wheel_filename(filename) ==
    IF ~EndsWith(filename, <<".", "whl">>) THEN Raise("InvalidWheelFilename")
    ELSE LET stem == SubSeq(filename, 1, Len(filename) - 2)
             dashes == Count(stem, "-")
             d1 == Find(stem, "-", 1)
             d2 == Find(stem, "-", d1 + 1)
             name_part == SubSeq(stem, 1, d1 - 1)
             version_part == SubSeq(stem, d1 + 1, d2 - 1)
         IN IF dashes \notin {4, 5} THEN Raise("InvalidWheelFilename")
            ELSE IF \E i \in 1..(Len(name_part) - 1) :
                       name_part[i] = "_" /\ name_part[i + 1] = "_"
              THEN Raise("InvalidWheelFilename")
            ELSE IF ~IsVersion(version_part) THEN Raise("InvalidVersion")
            ELSE Parsed(canonicalize_name(name_part))

\* packaging.utils.parse_sdist_filename: the project name, or the exception.
parse_sdist_filename(filename) ==
    LET ext == IF EndsWith(filename, <<".", "tar", ".", "gz">>) THEN 4
               ELSE IF EndsWith(filename, <<".", "zip">>) THEN 2
               ELSE 0
        file_stem == SubSeq(filename, 1, Len(filename) - ext)
        sep == RFind(file_stem, "-", Len(file_stem))
    IN IF ext = 0 THEN Raise("InvalidSdistFilename")
       ELSE IF sep = 0 THEN Raise("InvalidSdistFilename")
       ELSE IF ~IsVersion(SubSeq(file_stem, sep + 1, Len(file_stem)))
         THEN Raise("InvalidVersion")
       ELSE Parsed(canonicalize_name(SubSeq(file_stem, 1, sep - 1)))

(***************************************************************************)
(* The build registry: a dict, kept as the sequence of its items in        *)
(* iteration (first insertion) order.                                      *)
(***************************************************************************)
Keys(d) == {d[i].file : i \in 1..Len(d)}
Values(d) == {d[i].kind : i \in 1..Len(d)}

\* d[key] = kind: an existing key keeps its place, a new one goes last.
DictSet(d, key, kind) ==
    IF key \in Keys(d)
      THEN [i \in 1..Len(d) |->
               IF d[i].file = key THEN [file |-> key, kind |-> kind] ELSE d[i]]
      ELSE Append(d, [file |-> key, kind |-> kind])

\* self.props.build_backend.get_build_types()
get_build_types == pypa.build_types

\* AddBuildKind with an unconditional FILE fallback.
AddBuildKind_FileFallback(file) ==
    IF file.is_dir /\ "TREE" \in get_build_types THEN "TREE"
    ELSE IF Suffix(file.name) = <<".", "egg">> /\ "EGG" \in get_build_types
      THEN "EGG"
    ELSE IF Suffix(file.name) = <<".", "whl">> /\ "WHEEL" \in get_build_types
      THEN "WHEEL"
    ELSE IF /\ Suffix(file.name) \in {<<".", "gz">>, <<".", "tar">>, <<".", "zip">>}
            /\ "SDIST" \in get_build_types
      THEN "SDIST"
    ELSE "FILE"

\* The kind add_build registers file under, "none" when it registers nothing
\* (lines 219-245, with a backend).
AddBuildKind(file) ==
    IF file.is_dir /\ "TREE" \in get_build_types THEN "TREE"
    ELSE IF Suffix(file.name) = <<".", "egg">> /\ "EGG" \in get_build_types
      THEN "EGG"
    ELSE IF Suffix(file.name) = <<".", "whl">> /\ "WHEEL" \in get_build_types
      THEN "WHEEL"
    ELSE IF /\ Suffix(file.name) \in {<<".", "gz">>, <<".", "tar">>, <<".", "zip">>}
            /\ "SDIST" \in get_build_types
      THEN "SDIST"
    ELSE IF "FILE" \in get_build_types THEN "FILE"
    ELSE "none"

\* The registry after add_build(file).
add_build(d, file) ==
    IF AddBuildKind(file) = "none" THEN d
    ELSE DictSet(d, file.name, AddBuildKind(file))

\* add_build(file).  Without a backend every path through the conditions
\* reaches self.props.build_backend.get_build_types() on None.
AddBuild(file) ==
    /\ IsPython517BuildSystem
    /\ file.name \in Keys(builds) \/ Len(builds) < MaxBuilds
    /\ IF build_backend = None
         THEN /\ builds' = builds
              /\ ret' = [op |-> "add_build", raised |-> "AttributeError"]
         ELSE /\ builds' = add_build(builds, file)
              /\ ret' = [op |-> "add_build", raised |-> "none"]
    /\ UNCHANGED <<manifest, cancelled, pc, task, init_raised, pypa,
                   build_backend, stages, target, argv_ret>>

\* Two Python517BuildSystem objects (two projects); the actions of this
\* module are the calls made on "A".
Instances == {"A", "B"}

\* self.props.builds of an instance. The class body creates one dict as the
\* property's default and no method ever assigns the property, so every
\* instance reads, and add_build / clean_builds mutate in place, that one
\* dict.
PropsBuilds(inst) == builds

\* clean_builds dropping only the latest entry (dict.popitem()).
clean_builds_popitem(d) ==
    IF d = <<>> THEN d ELSE SubSeq(d, 1, Len(d) - 1)

\* The registry after clean_builds(): dict.clear().
clean_builds(d) == <<>>

CleanBuilds ==
    /\ IsPython517BuildSystem
    /\ builds' = clean_builds(builds)
    /\ ret' = [op |-> "clean_builds", raised |-> "none"]
    /\ UNCHANGED <<manifest, cancelled, pc, task, init_raised, pypa,
                   build_backend, stages, target, argv_ret>>

(***************************************************************************)
(* Installable derivation.                                                 *)
(***************************************************************************)
\* PreferredKind with the first two tests swapped.
PreferredKind_SdistFirst(d) ==
    IF "SDIST" \in Values(d) THEN "SDIST"
    ELSE IF "WHEEL" \in Values(d) THEN "WHEEL"
    ELSE IF "TREE" \in Values(d) THEN "TREE"
    ELSE None

\* The preferred kind of lines 273-278, None when nothing qualifies.
PreferredKind(d) ==
    IF "WHEEL" \in Values(d) THEN "WHEEL"
    ELSE IF "SDIST" \in Values(d) THEN "SDIST"
    ELSE IF "TREE" \in Values(d) THEN "TREE"
    ELSE None

Entry(file, kind, name) == [file |-> file, kind |-> kind, name |-> name]

\* The loop of lines 279-285 from item i on: b_inst so far and the name
\* carried over from the previous iterations.
RECURSIVE InstallableLoop(_, _, _, _, _)
InstallableLoop(d, i, installable, name, b_inst) ==
    IF i > Len(d) THEN [raised |-> "none", value |-> b_inst]
    ELSE IF d[i].kind # installable
      THEN InstallableLoop(d, i + 1, installable, name, b_inst)
    ELSE LET parsed == IF d[i].kind = "WHEEL" THEN parse_wheel_filename(d[i].file)
                       ELSE IF d[i].kind = "SDIST"
                         THEN parse_sdist_filename(d[i].file)
                       ELSE Parsed(name)
         IN IF parsed.raised # "none"
              THEN [raised |-> parsed.raised, value |-> <<>>]
              ELSE InstallableLoop(d, i + 1, installable, parsed.name,
                       Append(b_inst, Entry(d[i].file, d[i].kind, parsed.name)))

\* get_builds_installable(): the list it returns, or the exception it raises.
get_builds_installable(d) ==
    InstallableLoop(d, 1, PreferredKind(d), <<"Unknown">>,
                    <<Entry(WorkDir, "TREE", <<"sources">>)>>)

GetBuildsInstallable ==
    /\ IsPython517BuildSystem
    /\ ret' = [op |-> "get_builds_installable",
               raised |-> get_builds_installable(builds).raised,
               value |-> get_builds_installable(builds).value]
    /\ UNCHANGED <<manifest, cancelled, pc, task, init_raised, pypa,
                   build_backend, builds, stages, target, argv_ret>>

(***************************************************************************)
(* Python517BuildTarget.  An absent string (None, or "" which the code     *)
(* treats alike) is the empty sequence.                                    *)
(***************************************************************************)
NoStr == <<>>

\* Python517BuildTarget.__init__
Python517BuildTarget(name, action, priority, virtual_env, argv) ==
    [name |-> name, action |-> action, priority |-> priority,
     virtual_env |-> IF virtual_env # NoStr THEN virtual_env ELSE NoStr,
     argv |-> argv]

\* do_get_argv rewriting self.argv itself (no copy()).
do_get_argv_inplace(t) ==
    IF t.virtual_env # NoStr
      THEN IF t.argv = <<>>
             THEN [raised |-> "IndexError", value |-> <<>>, argv |-> t.argv]
             ELSE LET _argv == [t.argv EXCEPT
                                   ![1] = t.virtual_env \o <<"/", "bin", "/">> \o @]
                  IN [raised |-> "none", value |-> _argv, argv |-> _argv]
      ELSE [raised |-> "none", value |-> t.argv, argv |-> t.argv]

\* do_get_argv on target t: what it returns or raises, and the argv the
\* target holds afterwards.
do_get_argv(t) ==
    IF t.virtual_env # NoStr
      THEN IF t.argv = <<>>
             THEN [raised |-> "IndexError", value |-> <<>>, argv |-> t.argv]
             ELSE [raised |-> "none",
                   value |-> [t.argv EXCEPT
                                 ![1] = t.virtual_env \o <<"/", "bin", "/">> \o @],
                   argv |-> t.argv]
      ELSE [raised |-> "none", value |-> t.argv, argv |-> t.argv]

(***************************************************************************)
(* Target synthesis.                                                       *)
(***************************************************************************)
\* PypaBuildBackend.get_builddir_name(), get_wheel_cmd(), has_isolation().
get_builddir_name == <<"dist">>
get_wheel_cmd == <<<<"python">>, <<"-m">>, <<"build">>, <<"--wheel">>>>
has_isolation == pypa.has_isolation

\* get_virtual_env(): config is the VIRTUAL_ENV of the configuration, os_env
\* the one of the process environment.
get_virtual_env(config, os_env) ==
    IF config # NoStr \/ os_env # NoStr
      THEN LET virtual_env == IF config # NoStr THEN config ELSE os_env
           IN IF virtual_env[1] # "/"
                THEN WorkDir \o <<"/">> \o virtual_env
                ELSE virtual_env
      ELSE config

PipArgv(rest) == <<<<"python">>, <<"-m">>, <<"pip">>>> \o rest

\* TargetsOf handing the resolved environment to every "wheel" target.
TargetsOf_NoIsolation(e, build_dir, virtual_env) ==
    (IF e.kind = "SDIST"
       THEN <<Python517BuildTarget(e.name, "wheel", 100, virtual_env,
                                   get_wheel_cmd)>>
       ELSE <<>>)
    \o (IF e.kind \in {"SDIST", "WHEEL"}
          THEN <<Python517BuildTarget(e.name, "install", 200, virtual_env,
                     PipArgv(<<<<"install">>, build_dir \o <<"/">> \o e.file>>)),
                 Python517BuildTarget(e.name, "uninstall", 400, virtual_env,
                     PipArgv(<<<<"uninstall">>, e.name>>))>>
          ELSE <<>>)
    \o (IF e.kind \in {"TREE"}
          THEN <<Python517BuildTarget(e.name, "install editable", 200,
                     virtual_env,
                     PipArgv(<<<<"install">>, <<"-e">>, e.file>>))>>
          ELSE <<>>)

\* The targets the loop body of lines 508-547 appends for one installable.
TargetsOf(e, build_dir, virtual_env) ==
    (IF e.kind = "SDIST"
       THEN <<Python517BuildTarget(e.name, "wheel", 100,
                  IF has_isolation THEN NoStr ELSE virtual_env, get_wheel_cmd)>>
       ELSE <<>>)
    \o (IF e.kind \in {"SDIST", "WHEEL"}
          THEN <<Python517BuildTarget(e.name, "install", 200, virtual_env,
                     PipArgv(<<<<"install">>, build_dir \o <<"/">> \o e.file>>)),
                 Python517BuildTarget(e.name, "uninstall", 400, virtual_env,
                     PipArgv(<<<<"uninstall">>, e.name>>))>>
          ELSE <<>>)
    \o (IF e.kind \in {"TREE"}
          THEN <<Python517BuildTarget(e.name, "install editable", 200,
                     virtual_env,
                     PipArgv(<<<<"install">>, <<"-e">>, e.file>>))>>
          ELSE <<>>)

\* The loop of lines 507-547 over the installables from item i on.
RECURSIVE TargetsLoop(_, _, _, _)
TargetsLoop(installables, i, build_dir, virtual_env) ==
    IF i > Len(installables) THEN <<>>
    ELSE TargetsOf(installables[i], build_dir, virtual_env)
         \o TargetsLoop(installables, i + 1, build_dir, virtual_env)

\* do_get_targets_async: the task it completes (or leaves pending when an
\* exception escapes) and task.targets.
do_get_targets_async(config, os_env) ==
    IF ~IsPython517BuildSystem
      THEN [raised |-> "none", task |-> Error("NOT_SUPPORTED"), targets |-> <<>>]
    ELSE IF build_backend = None
      \* build_system.props.build_backend.get_builddir_name() on None
      THEN [raised |-> "AttributeError", task |-> Pending, targets |-> <<>>]
    ELSE IF get_builds_installable(builds).raised # "none"
      THEN [raised |-> get_builds_installable(builds).raised, task |-> Pending,
            targets |-> <<>>]
    ELSE [raised |-> "none", task |-> Value("True"),
          targets |-> TargetsLoop(get_builds_installable(builds).value, 1,
                          get_builddir_name, get_virtual_env(config, os_env))]

ConfigEnvs == {NoStr, <<"venv">>}
OsEnvs == {NoStr, <<"/", "env">>}

DoGetTargetsAsync(config, os_env) ==
    /\ pc = "done"
    /\ ret' = [op |-> "do_get_targets_async",
               raised |-> do_get_targets_async(config, os_env).raised,
               task |-> do_get_targets_async(config, os_env).task,
               virtual_env |-> get_virtual_env(config, os_env),
               targets |-> do_get_targets_async(config, os_env).targets]
    /\ UNCHANGED <<manifest, cancelled, pc, task, init_raised, pypa,
                   build_backend, builds, stages, target, argv_ret>>

(***************************************************************************)
(* Python517PipelineAddin.do_load                                          *)
(***************************************************************************)
\* The host loads the addin once for the pipeline.
DoLoad ==
    /\ stages = <<>>
    /\ IF ~IsPython517BuildSystem
         THEN stages' = stages
         ELSE stages' = Append(stages, [phase |-> "BUILD", priority |-> 100,
                                         build_backend |-> build_backend])
    /\ ret' = [op |-> "do_load", raised |-> "none"]
    /\ UNCHANGED <<manifest, cancelled, pc, task, init_raised, pypa,
                   build_backend, builds, target, argv_ret>>

(***************************************************************************)
(* A target object on its own: construction, then do_get_argv calls.       *)
(***************************************************************************)
Words == {<<"pip">>, <<"install">>, <<"x">>}

RECURSIVE SeqsUpTo(_, _)
SeqsUpTo(S, n) ==
    IF n = 0 THEN {<<>>}
    ELSE LET shorter == SeqsUpTo(S, n - 1)
         IN shorter \cup {Append(q, x) : q \in shorter, x \in S}

TargetEnvs == {NoStr, <<"/", "env">>, <<"venv">>}

NewTarget(virtual_env, argv) ==
    /\ target = <<>>
    /\ target' = <<Python517BuildTarget(<<"mypkg">>, "install", 200,
                                        virtual_env, argv)>>
    /\ ret' = [op |-> "Python517BuildTarget", raised |-> "none",
               virtual_env |-> virtual_env, argv |-> argv]
    /\ UNCHANGED <<manifest, cancelled, pc, task, init_raised, pypa,
                   build_backend, builds, stages, argv_ret>>

DoGetArgv ==
    /\ target # <<>>
    /\ Len(argv_ret) < MaxCalls
    /\ target' = <<[target[1] EXCEPT !.argv = do_get_argv(target[1]).argv]>>
    /\ argv_ret' = Append(argv_ret, [raised |-> do_get_argv(target[1]).raised,
                                     value |-> do_get_argv(target[1]).value])
    /\ UNCHANGED <<manifest, cancelled, pc, task, init_raised, pypa,
                   build_backend, builds, ret, stages>>

InitTarget ==
    /\ manifest = [kind |-> "toml", bs |-> "dict", bb |-> "str",
                   key |-> "setuptools.build_meta"]
    /\ cancelled = FALSE
    /\ pc = "new"
    /\ task = Pending
    /\ init_raised = "none"
    /\ pypa = [build_types |-> BuildType, has_isolation |-> FALSE]
    /\ build_backend = None
    /\ builds = <<>>
    /\ ret = NoCall
    /\ stages = <<>>
    /\ target = <<>>
    /\ argv_ret = <<>>

NextTarget ==
    \/ \E virtual_env \in TargetEnvs, argv \in SeqsUpTo(Words, MaxArgv) :
           NewTarget(virtual_env, argv)
    \/ DoGetArgv

SpecTarget == InitTarget /\ [][NextTarget]_vars

(***************************************************************************)
(* The linter: PythonLinterDiagnosticProvider.                             *)
(***************************************************************************)
\* The keys of SEVERITY_MAP that pylint's "type" field can take.
SEVERITY_MAP == {"convention", "refactor", "warning", "error", "fatal"}

\* The items of pylint's JSON output: whether "line" and "column" are both
\* present and non-zero, and the "type" ("info" is not a key of the map).
Items == [has_pos : BOOLEAN, type : {"warning", "info"}]

\* What the pylint run can produce: launcher.spawn() fails or not, the file
\* content handed in (None, bytes that are UTF-8 or not), the success flag of
\* communicate_utf8, whether stdout is JSON, and the list of items it holds.
LinterRuns ==
    [spawn : {"ok", "GLib.Error"},
     file_content : {"None", "utf8", "notutf8"},
     success : BOOLEAN,
     json : BOOLEAN,
     results : {<<>>} \cup {<<it>> : it \in Items}]

\* The loop over the results raises KeyError at the first item that has a
\* position and a type outside SEVERITY_MAP.
SeverityKeyError(results) ==
    \E i \in 1..Len(results) :
        results[i].has_pos /\ results[i].type \notin SEVERITY_MAP

\* The outcome of _execute on the thread: the exception that escapes it, if
\* any, and the state of the task when it ends.
_execute(run) ==
    IF run.spawn = "GLib.Error"
      THEN [raised |-> "none", task |-> Error("GLib.Error")]
    ELSE IF run.file_content = "None"
      THEN [raised |-> "AttributeError", task |-> Pending]
    ELSE IF run.file_content = "notutf8"
      THEN [raised |-> "none", task |-> Error("Failed to decode pylint json")]
    ELSE IF ~run.success
      THEN [raised |-> "none", task |-> Value("False")]
    ELSE IF ~run.json
      THEN [raised |-> "none", task |-> Error("Failed to decode pylint json")]
    ELSE IF SeverityKeyError(run.results)
      THEN [raised |-> "KeyError", task |-> Pending]
    ELSE [raised |-> "none", task |-> Value("True")]

\* do_diagnose_async: a new task, then _execute on its own thread.
DoDiagnoseAsync(run) ==
    /\ ret' = [op |-> "do_diagnose_async",
               raised |-> _execute(run).raised,
               task |-> _execute(run).task]
    /\ UNCHANGED <<manifest, cancelled, pc, task, init_raised, pypa,
                   build_backend, builds, stages, target, argv_ret>>

Next ==
    \/ DoInitAsync
    \/ Cancel
    \/ OnLoadPyprojectToml
    \/ \E file \in Paths : AddBuild(file)
    \/ CleanBuilds
    \/ GetBuildsInstallable
    \/ \E config \in ConfigEnvs, os_env \in OsEnvs :
           DoGetTargetsAsync(config, os_env)
    \/ DoLoad
    \/ \E run \in LinterRuns : DoDiagnoseAsync(run)

Spec == Init /\ [][Next]_vars
(***************************************************************************)
(* Properties.                                                             *)
(***************************************************************************)
\* The callback ran on a manifest that was read and parsed.
ParsedManifest == pc = "done" /\ ~cancelled /\ manifest.kind = "toml"

\* The document has a string build-system.build-backend entry.
HasStringBackendKey(doc) == doc.bs = "dict" /\ doc.bb = "str"

\* C1: for every manifest that parses but has no string
\* build-system.build-backend entry (no build-system table, not a mapping, key
\* missing, key not a string), resolution completes with the NOT_SUPPORTED
\* error and build_backend is still null.
C1_NoBackendKeyIsNotSupported ==
    (ParsedManifest /\ ~HasStringBackendKey(manifest))
        => /\ task = Error("NOT_SUPPORTED")
           /\ init_raised = "none"
           /\ build_backend = None

C1_Witness ==
    /\ ParsedManifest
    /\ manifest.bs = "dict"
    /\ manifest.bb = "int"
    /\ task = Error("NOT_SUPPORTED")

\* C2: for every manifest whose build-system.build-backend is a string,
\* resolution completes with the value True and no error; build_backend is an
\* instance of the registered backend when the key is in the registry and stays
\* null when it is not.
C2_StringKeyResolves ==
    (ParsedManifest /\ HasStringBackendKey(manifest))
        => /\ task = Value("True")
           /\ init_raised = "none"
           /\ (manifest.key \in backends => build_backend = "PypaBuildBackend")
           /\ (manifest.key \notin backends => build_backend = None)

C2_Witness ==
    /\ ParsedManifest
    /\ manifest.key = "flit_core.buildapi"
    /\ task = Value("True")
    /\ build_backend = None

\* C3: with a resolved backend, after any sequence of add_build and
\* clean_builds calls every entry of the registry has a kind the backend
\* declares as supported.
C3_RegisteredKindsSupported ==
    build_backend # None
        => \A i \in 1..Len(builds) : builds[i].kind \in pypa.build_types

C3_Witness ==
    /\ build_backend # None
    /\ Len(builds) = 2
    /\ pypa.build_types = {"WHEEL", "SDIST"}
    /\ ret.op = "add_build"

\* The files of the registry entries of kind k, in registry order.
RECURSIVE MatchedOfKind(_, _)
MatchedOfKind(d, k) ==
    IF d = <<>> THEN <<>>
    ELSE (IF d[1].kind = k THEN <<d[1].file>> ELSE <<>>)
         \o MatchedOfKind(Tail(d), k)

\* C4: for every registry content, with a backend resolved,
\* get_builds_installable returns a sequence: first the synthetic entry
\* (project root, TREE, "sources"), then the matched artifacts in registry
\* iteration order.
C4_SourcesFirstAlways ==
    (ret.op = "get_builds_installable" /\ build_backend # None)
        => /\ ret.raised = "none"
           /\ Len(ret.value) >= 1
           /\ ret.value[1] = [file |-> WorkDir, kind |-> "TREE",
                              name |-> <<"sources">>]
           /\ [i \in 1..(Len(ret.value) - 1) |-> ret.value[i + 1].file]
                  = MatchedOfKind(builds, PreferredKind(builds))

\* C5: get_builds_installable prefers WHEEL over SDIST over TREE: with a WHEEL
\* and an SDIST registered every returned entry after the sources entry is a
\* WHEEL; with an SDIST and no WHEEL every one is an SDIST; EGG and FILE
\* entries are never returned.
C5_WheelOverSdist ==
    (ret.op = "get_builds_installable" /\ ret.raised = "none")
        => \A i \in 2..Len(ret.value) :
              /\ ("WHEEL" \in Values(builds) => ret.value[i].kind = "WHEEL")
              /\ ("WHEEL" \notin Values(builds) /\ "SDIST" \in Values(builds)
                     => ret.value[i].kind = "SDIST")
              /\ ret.value[i].kind \notin {"EGG", "FILE"}

C5_Witness ==
    /\ ret.op = "get_builds_installable"
    /\ ret.raised = "none"
    /\ {"WHEEL", "SDIST"} \subseteq Values(builds)
    /\ Len(ret.value) = 2
    /\ ret.value[2].kind = "WHEEL"

\* C6: clean_builds empties the registry and leaves the resolved backend
\* alone, and a second clean_builds right after the first changes nothing.
C6_CleanIdempotent ==
    [][ret'.op = "clean_builds"
          => /\ builds' = <<>>
             /\ build_backend' = build_backend
             /\ (ret.op = "clean_builds" => UNCHANGED vars)]_vars

C6_Witness ==
    /\ ret.op = "clean_builds"
    /\ builds = <<>>
    /\ build_backend = "PypaBuildBackend"

\* C7: for a target built with environment E and argument vector
\* [a0, a1, ..., an], every do_get_argv call returns [E/bin/a0, a1, ..., an]
\* when E is non-empty and the argument vector verbatim when there is no
\* environment, and the target's stored argument vector stays as constructed.
C7_ArgvRewrite ==
    (target # <<>> /\ ret.argv # <<>>)
        => /\ target[1].argv = ret.argv
           /\ \A i \in 1..Len(argv_ret) :
                 /\ argv_ret[i].raised = "none"
                 /\ argv_ret[i].value =
                        IF ret.virtual_env # NoStr
                          THEN <<ret.virtual_env \o <<"/", "bin", "/">>
                                     \o ret.argv[1]>> \o Tail(ret.argv)
                          ELSE ret.argv

C7_Witness ==
    /\ target # <<>>
    /\ ret.virtual_env = <<"/", "env">>
    /\ ret.argv = <<<<"pip">>, <<"install">>, <<"x">>>>
    /\ Len(argv_ret) = 2
    /\ argv_ret[2].value =
           <<<<"/", "env", "/", "bin", "/", "pip">>, <<"install">>, <<"x">>>>

\* C8: when the manifest is missing (the read fails) or cannot be parsed,
\* resolution fails with the NOT_SUPPORTED (NotPep517Project) error and do_load
\* attaches no stage.
C8_MissingIsNotPep517 ==
    (pc = "done" /\ ~cancelled
         /\ manifest.kind \in {"missing", "notutf8", "badtoml"})
        => /\ task = Error("NOT_SUPPORTED")
           /\ stages = <<>>

\* What C9 says of a target: its name, action, priority and environment.
Shape(t) == <<t.name, t.action, t.priority, t.virtual_env>>

\* The targets C9 describes for one installable entry.
C9_Block(e, venv, isolated) ==
    CASE e.kind = "SDIST" ->
             <<<<e.name, "wheel", 100, IF isolated THEN NoStr ELSE venv>>,
               <<e.name, "install", 200, venv>>,
               <<e.name, "uninstall", 400, venv>>>>
      [] e.kind = "WHEEL" ->
             <<<<e.name, "install", 200, venv>>,
               <<e.name, "uninstall", 400, venv>>>>
      [] e.kind = "TREE" -> <<<<e.name, "install editable", 200, venv>>>>
      [] OTHER -> <<>>

RECURSIVE C9_Blocks(_, _, _)
C9_Blocks(es, venv, isolated) ==
    IF es = <<>> THEN <<>>
    ELSE C9_Block(es[1], venv, isolated) \o C9_Blocks(Tail(es), venv, isolated)

\* C9: target synthesis maps the installables, in their order and unsorted,
\* to wheel (100) / install (200) / uninstall (400) targets for an SDIST,
\* install / uninstall for a WHEEL and install editable (200) for a TREE, the
\* wheel target with no environment when the backend has isolation; with the
\* one wheel mypkg-1.0-py3-none-any.whl registered the targets are install
\* editable for "sources", then install and uninstall for "mypkg".
C9_TargetSynthesis ==
    (ret.op = "do_get_targets_async" /\ ret.task = Value("True"))
        => /\ [i \in 1..Len(ret.targets) |-> Shape(ret.targets[i])]
                  = C9_Blocks(get_builds_installable(builds).value,
                              ret.virtual_env, pypa.has_isolation)
           /\ (builds = <<[file |-> GoodWheel, kind |-> "WHEEL"]>>
                  => [i \in 1..Len(ret.targets) |->
                         <<ret.targets[i].name, ret.targets[i].action,
                           ret.targets[i].priority>>]
                     = <<<<<<"sources">>, "install editable", 200>>,
                         <<<<"mypkg">>, "install", 200>>,
                         <<<<"mypkg">>, "uninstall", 400>>>>)

C9_Witness ==
    /\ ret.op = "do_get_targets_async"
    /\ ret.task = Value("True")
    /\ pypa.has_isolation
    /\ ret.virtual_env # NoStr
    /\ Len(ret.targets) = 4
    /\ ret.targets[2].action = "wheel"
    /\ ret.targets[2].priority < ret.targets[1].priority

\* C10: a cancelled manifest load completes the task with the CANCELLED error,
\* which is neither the NOT_SUPPORTED error nor another failure, and leaves the
\* build registry and build_backend (null) as they were.
C10_CancelledLoad ==
    (pc = "done" /\ cancelled)
        => /\ task = Error("CANCELLED")
           /\ task.code \notin {"NOT_SUPPORTED", "NOT_FOUND"}
           /\ init_raised = "none"
           /\ builds = <<>>
           /\ build_backend = None

C10_Witness ==
    /\ pc = "done"
    /\ cancelled
    /\ manifest.kind = "toml"
    /\ manifest.key = "setuptools.build_meta"
    /\ task = Error("CANCELLED")

\* The file name does not follow the grammar of its kind.
Unparsable(e) ==
    \/ e.kind = "WHEEL" /\ parse_wheel_filename(e.file).raised # "none"
    \/ e.kind = "SDIST" /\ parse_sdist_filename(e.file).raised # "none"

\* C11: a registered WHEEL or SDIST whose name does not follow the filename
\* grammar does not abort get_builds_installable: the call returns the full
\* sequence (sources entry and every artifact of the preferred kind) and the
\* entry of such an artifact is named "Unknown".
C11_ParseFailureGivesUnknown ==
    (ret.op = "get_builds_installable" /\ build_backend # None)
        => /\ ret.raised = "none"
           /\ Len(ret.value) = 1 + Len(MatchedOfKind(builds, PreferredKind(builds)))
           /\ \A i \in 2..Len(ret.value) :
                 Unparsable(ret.value[i]) => ret.value[i].name = <<"Unknown">>

Classify(file) ==
    IF file.is_dir THEN "TREE"
    ELSE IF Suffix(file.name) = <<".", "egg">> THEN "EGG"
    ELSE IF Suffix(file.name) = <<".", "whl">> THEN "WHEEL"
    ELSE IF \/ Suffix(file.name) \in {<<".", "tar">>, <<".", "zip">>}
            \/ EndsWith(file.name, <<".", "tar", ".", "gz">>)
      THEN "SDIST"
    ELSE "FILE"

\* C13: add_build registers a path only under its classified kind and only
\* when the backend supports that kind: for a path whose classified kind the
\* backend does not support the registry is left unchanged (the path is not
\* registered under FILE or any other kind).
C13_UnsupportedKindRejected ==
    [][\A file \in Paths :
          (AddBuild(file) /\ build_backend # None
               /\ Classify(file) \notin pypa.build_types)
              => builds' = builds]_vars

\* C14: after a resolution that succeeded with a null backend, add_build and
\* do_get_targets_async never invoke a backend method on the null backend
\* (no call ends in the AttributeError of a method lookup on None).
C14_NullBackendChecked ==
    (task.state = "value" /\ build_backend = None
         /\ ret.op \in {"add_build", "do_get_targets_async"})
        => ret.raised # "AttributeError"

\* C15: the registry is owned by one instance: an add_build or clean_builds
\* call on instance A leaves the registry of every other instance unchanged.
C15_RegistryPerInstance ==
    [][ret'.op \in {"add_build", "clean_builds"}
          => \A inst \in Instances \ {"A"} :
                PropsBuilds(inst)' = PropsBuilds(inst)]_vars

\* C16: single-shot completion: once its handler has run, every started
\* asynchronous operation (manifest resolution, target enumeration, linter
\* diagnosis) has completed its task with a result or an error; no handler
\* ends with the task still pending.
C16_SingleShotCompletion ==
    /\ pc = "done" => task.state # "pending"
    /\ ret.op \in {"do_get_targets_async", "do_diagnose_async"}
           => ret.task.state # "pending"
====
